---- MODULE Spec2Model ----
\* A model of app.py, the NYC ridership dashboard: the cached CSV load, the cached
\* station summary, the borough filter and the chart transforms of one script run.
\* A DataFrame is a record [columns, rows]; a row carries its pandas index label in
\* the field "index".  transit_timestamp is the number of hours since
\* 2024-01-01 00:00 (a Monday).  Cell values of latitude, longitude,
\* payment_method and fare_class_category are not carried: only the presence of
\* those columns decides what the script does with them.
EXTENDS Integers, Sequences, FiniteSets

VARIABLES file, loadCache, summaryCache, loadCount, summaryCount,
          selected_borough, status, exc, rendered,
          df, station_summary, borough_list, main_df, station_df,
          line_data_to_plot, top_stations_in_borough, top_10_stations,
          top_10_transfers, heatmap_pivot, metrics

vars == <<file, loadCache, summaryCache, loadCount, summaryCount,
          selected_borough, status, exc, rendered,
          df, station_summary, borough_list, main_df, station_df,
          line_data_to_plot, top_stations_in_borough, top_10_stations,
          top_10_transfers, heatmap_pivot, metrics>>

-----------------------------------------------------------------------------
\* Bounds of the model.

\* Longest CSV (number of data rows) of the main specification.
MaxRecords == 2

\* Largest number of stations of the top-N specification.
MaxStations == 11

\* Cap on the two counters of completed loads and summaries.
MaxAttempts == 3

-----------------------------------------------------------------------------
\* Values the CSV rows are drawn from.

\* Station and borough names, each list in Python's string order.
StationOrder == <<"StationA", "StationB", "StationC", "StationD", "StationE",
                  "StationF", "StationG", "StationH", "StationI", "StationJ",
                  "StationK", "StationL", "StationM", "StationN">>

BoroughOrder == <<"Bronx", "Brooklyn", "Manhattan", "Queens", "Staten Island">>

Stations == {"StationA", "StationB"}

Boroughs == {"Bronx", "Queens"}

\* (ridership, transfers, timestamp) of one CSV row: Monday 09:00 twice with
\* different counts, and Tuesday 08:00.
Observations == { [ridership |-> 10, transfers |-> 1, transit_timestamp |-> 9],
                  [ridership |-> 20, transfers |-> 2, transit_timestamp |-> 9],
                  [ridership |-> 3,  transfers |-> 0, transit_timestamp |-> 32] }

\* The measures a station of the top-N specification is drawn from: the two
\* columns rank the stations in opposite orders.
TopObservations == { [ridership |-> 10, transfers |-> 2, transit_timestamp |-> 9],
                     [ridership |-> 20, transfers |-> 1, transit_timestamp |-> 9] }

CsvRow(s, b, o) ==
    [station_complex |-> s, borough |-> b, ridership |-> o.ridership,
     transfers |-> o.transfers, transit_timestamp |-> o.transit_timestamp]

CsvRows == { CsvRow(s, b, o) : s \in Stations, b \in Boroughs, o \in Observations }

\* The columns of the input file.
AllColumns == {"transit_timestamp", "station_complex", "borough", "ridership",
               "transfers", "payment_method", "fare_class_category",
               "latitude", "longitude"}

\* The shapes of input file the model offers: a well-formed file, no file, a
\* timestamp column that does not parse, and a file lacking one column.
FileConditions ==
    { [exists |-> TRUE,  tsOK |-> TRUE,  columns |-> AllColumns],
      [exists |-> FALSE, tsOK |-> TRUE,  columns |-> AllColumns],
      [exists |-> TRUE,  tsOK |-> FALSE, columns |-> AllColumns] }
    \cup { [exists |-> TRUE, tsOK |-> TRUE, columns |-> AllColumns \ {c}] :
           c \in AllColumns }

-----------------------------------------------------------------------------
\* Library helpers.

RECURSIVE Sum(_)
Sum(s) == IF s = <<>> THEN 0 ELSE Head(s) + Sum(Tail(s))

Col(rows, c) == [i \in DOMAIN rows |-> rows[i][c]]

Range(s) == { s[i] : i \in DOMAIN s }

RECURSIVE Gcd(_, _)
Gcd(a, b) == IF b = 0 THEN a ELSE Gcd(b, a % b)

\* A float that is not a number, and the mean of a non-empty list of integers
\* as a fraction in lowest terms.
NaN == [num |-> 0, den |-> 0]

Mean(s) ==
    IF s = <<>> THEN NaN
    ELSE LET g == Gcd(Sum(s), Len(s))
         IN  [num |-> Sum(s) \div g, den |-> Len(s) \div g]

Rank(order, x) == CHOOSE i \in DOMAIN order : order[i] = x

\* Python's order on (station_complex, borough) tuples.
KeyLess(a, b) ==
    \/ Rank(StationOrder, a[1]) < Rank(StationOrder, b[1])
    \/ /\ a[1] = b[1]
       /\ Rank(BoroughOrder, a[2]) < Rank(BoroughOrder, b[2])

\* The elements of a set of keys in ascending order.
RECURSIVE SortKeys(_)
SortKeys(S) ==
    IF S = {} THEN <<>>
    ELSE LET m == CHOOSE x \in S : \A y \in S \ {x} : KeyLess(x, y)
         IN  <<m>> \o SortKeys(S \ {m})

RECURSIVE SortInts(_)
SortInts(S) ==
    IF S = {} THEN <<>>
    ELSE LET m == CHOOSE x \in S : \A y \in S : x <= y
         IN  <<m>> \o SortInts(S \ {m})

\* Series.unique(): the distinct values in order of first appearance.
RECURSIVE Unique(_)
Unique(s) ==
    IF s = <<>> THEN <<>>
    ELSE LET u == Unique(SubSeq(s, 1, Len(s) - 1))
             x == s[Len(s)]
         IN  IF x \in Range(u) THEN u ELSE Append(u, x)

Frame(cols, rows) == [columns |-> cols, rows |-> rows]

NoFrame == Frame({}, <<>>)

Ok(v) == [exc |-> "none", value |-> v]

Raise(e) == [exc |-> e, value |-> NoFrame]

IndexLabels(frame) == { frame.rows[i].index : i \in DOMAIN frame.rows }

-----------------------------------------------------------------------------
\* Data loading and aggregation.

\* load_data: read_csv gives the rows a RangeIndex 0..n-1, then the timestamp
\* column is parsed under '%m/%d/%Y %I:%M:%S %p'.
load_data(f) ==
    IF ~f.exists THEN Raise("FileNotFoundError")
    ELSE IF "transit_timestamp" \notin f.columns THEN Raise("KeyError")
    ELSE IF ~f.tsOK THEN Raise("ValueError")
    ELSE Ok(Frame(f.columns,
                  [i \in DOMAIN f.rows |->
                     [index |-> i - 1,
                      station_complex |-> f.rows[i].station_complex,
                      borough |-> f.rows[i].borough,
                      ridership |-> f.rows[i].ridership,
                      transfers |-> f.rows[i].transfers,
                      transit_timestamp |-> f.rows[i].transit_timestamp]]))

SummaryInputs == {"station_complex", "borough", "ridership", "transfers",
                  "latitude", "longitude"}

SummaryColumns == {"station_complex", "borough", "total_ridership",
                   "total_transfers", "latitude", "longitude"}

\* The group keys had the groupby been given sort=False.
GroupKeysFirstSeen(rows) ==
    Unique([i \in DOMAIN rows |-> <<rows[i].station_complex, rows[i].borough>>])

\* groupby(['station_complex', 'borough']) with the default sort=True: the group
\* keys in ascending order.
GroupKeys(rows) ==
    SortKeys({ <<rows[i].station_complex, rows[i].borough>> : i \in DOMAIN rows })

\* The 'last' aggregation in place of 'sum'.
GroupLast(rows, key, c) ==
    LET g == SelectSeq(rows, LAMBDA r : <<r.station_complex, r.borough>> = key)
    IN  g[Len(g)][c]

\* The 'sum' aggregation of one column over one group.
GroupSum(rows, key, c) ==
    Sum(Col(SelectSeq(rows, LAMBDA r : <<r.station_complex, r.borough>> = key), c))

create_station_summary(d) ==
    IF ~(SummaryInputs \subseteq d.columns) THEN Raise("KeyError")
    ELSE LET keys == GroupKeys(d.rows)
         IN  Ok(Frame(SummaryColumns,
                      [i \in DOMAIN keys |->
                         [index |-> i - 1,
                          station_complex |-> keys[i][1],
                          borough |-> keys[i][2],
                          total_ridership |-> GroupSum(d.rows, keys[i], "ridership"),
                          total_transfers |-> GroupSum(d.rows, keys[i], "transfers")]]))

-----------------------------------------------------------------------------
\* Sidebar and filter.

\* The list with 'Overall' written over its first borough instead of put in front.
BoroughListOverwrite(d) ==
    LET u == Unique(Col(d.rows, "borough"))
    IN  IF u = <<>> THEN <<"Overall">> ELSE <<"Overall">> \o Tail(u)

\* ['Overall'] + df['borough'].unique().tolist()
borough_list_of(d) == <<"Overall">> \o Unique(Col(d.rows, "borough"))

\* The filter with the comparison negated.
FilterOther(frame, b) ==
    Frame(frame.columns, SelectSeq(frame.rows, LAMBDA r : r.borough # b))

\* frame[frame['borough'] == b]: the matching rows, index labels kept.
FilterBorough(frame, b) ==
    Frame(frame.columns, SelectSeq(frame.rows, LAMBDA r : r.borough = b))

ViewRecords(d, sel) == IF sel = "Overall" THEN d ELSE FilterBorough(d, sel)

ViewStations(summary, sel) ==
    IF sel = "Overall" THEN summary ELSE FilterBorough(summary, sel)

-----------------------------------------------------------------------------
\* Chart transforms.

\* groupby('transit_timestamp')['ridership'].sum().reset_index(): one row per
\* distinct timestamp, ascending.
LineData(m) ==
    LET tss == SortInts(Range(Col(m.rows, "transit_timestamp")))
    IN  Frame({"transit_timestamp", "ridership"},
              [i \in DOMAIN tss |->
                 [index |-> i - 1,
                  transit_timestamp |-> tss[i],
                  ridership |->
                     Sum(Col(SelectSeq(m.rows,
                                       LAMBDA r : r.transit_timestamp = tss[i]),
                             "ridership"))]])

\* The position of the first row holding the largest value of column c.
FirstMax(rows, c) ==
    CHOOSE i \in DOMAIN rows :
        /\ \A j \in DOMAIN rows : rows[j][c] <= rows[i][c]
        /\ \A j \in 1..(i - 1) : rows[j][c] < rows[i][c]

RemoveAt(rows, i) == SubSeq(rows, 1, i - 1) \o SubSeq(rows, i + 1, Len(rows))

\* head(n) in place of nlargest(n, c).
HeadRows(n, c, rows) == SubSeq(rows, 1, IF Len(rows) < n THEN Len(rows) ELSE n)

\* DataFrame.nlargest(n, c), keep='first': the n rows of largest c in
\* descending order, ties in their original order, index labels kept.
RECURSIVE LargestRows(_, _, _)
LargestRows(n, c, rows) ==
    IF n = 0 \/ rows = <<>> THEN <<>>
    ELSE LET i == FirstMax(rows, c)
         IN  <<rows[i]>> \o LargestRows(n - 1, c, RemoveAt(rows, i))

nlargest(frame, n, c) == Frame(frame.columns, LargestRows(n, c, frame.rows))

\* Series.idxmax(): the index label of the first largest value; an empty
\* series raises ValueError.
idxmax(rows, c) ==
    IF rows = <<>> THEN [exc |-> "ValueError", value |-> -1]
    ELSE [exc |-> "none", value |-> rows[FirstMax(rows, c)].index]

\* frame.loc[label]
Loc(rows, label) == rows[CHOOSE i \in DOMAIN rows : rows[i].index = label]

\* The size of the two top-N bar charts and of the top-station pie.
TopN == 10

TopShare == 5

\* The "Busiest Day" card: line_data_to_plot.loc[idxmax()].
BusiestDay(line) ==
    LET i == idxmax(line.rows, "ridership")
    IN  IF i.exc # "none" THEN [exc |-> i.exc, value |-> <<>>]
        ELSE LET r == Loc(line.rows, i.value)
             IN  Ok(<< [label |-> "Busiest Day",
                        value |-> r.transit_timestamp \div 24,
                        delta |-> r.ridership] >>)

\* The "Busiest Station" and "Total Transfers" cards.
BusiestStation(st) ==
    LET i == idxmax(st.rows, "total_ridership")
    IN  IF i.exc # "none" THEN [exc |-> i.exc, value |-> <<>>]
        ELSE LET r == Loc(st.rows, i.value)
             IN  Ok(<< [label |-> "Busiest Station",
                        value |-> r.station_complex,
                        delta |-> r.total_ridership],
                       [label |-> "Total Transfers",
                        value |-> Sum(Col(st.rows, "total_transfers"))] >>)

MetricCards(m, day, stn) ==
    IF day.exc # "none" THEN day
    ELSE IF stn.exc # "none" THEN stn
    ELSE Ok(<< [label |-> "Total Ridership",
                value |-> Sum(Col(m.rows, "ridership"))],
               [label |-> "Avg. Ridership / Hour",
                value |-> Mean(Col(m.rows, "ridership"))] >>
            \o day.value \o stn.value)

\* The column without its two emptiness guards.
KeyMetricsUnguarded(m, line, st) ==
    MetricCards(m, BusiestDay(line), BusiestStation(st))

\* The Key Metrics column: the st.metric cards in order, or the exception that
\* ends the run.  The two argmax cards are drawn only for non-empty frames.
KeyMetrics(m, line, st) ==
    MetricCards(m,
                IF line.rows # <<>> THEN BusiestDay(line) ELSE Ok(<<>>),
                IF st.rows # <<>> THEN BusiestStation(st) ELSE Ok(<<>>))

day_order == <<"Monday", "Tuesday", "Wednesday", "Thursday", "Friday",
               "Saturday", "Sunday">>

\* Series.dt.day_name() and Series.dt.hour of a timestamp.
day_name(ts) == day_order[((ts \div 24) % 7) + 1]

hour(ts) == ts % 24

\* groupby(['day_of_week', 'hour']).mean(), pivot(index='hour',
\* columns='day_of_week'), reindex(columns=day_order): one row per hour that
\* occurs, one column per day of day_order, NaN where no record falls.
HeatmapIndex(m) ==
    SortInts({ hour(m.rows[i].transit_timestamp) : i \in DOMAIN m.rows })

\* The cell had the pivot been filled with 0 (fillna(0)).
HeatmapCellZero(m, h, d) ==
    LET cell == SelectSeq(m.rows, LAMBDA r : hour(r.transit_timestamp) = h
                                              /\ day_name(r.transit_timestamp) = d)
    IN  IF cell = <<>> THEN [num |-> 0, den |-> 1] ELSE Mean(Col(cell, "ridership"))

HeatmapCell(m, h, d) ==
    Mean(Col(SelectSeq(m.rows, LAMBDA r : hour(r.transit_timestamp) = h
                                          /\ day_name(r.transit_timestamp) = d),
             "ridership"))

heatmap_pivot_of(m) ==
    LET idx == HeatmapIndex(m)
    IN  [index   |-> idx,
         columns |-> day_order,
         values  |-> [c \in Range(idx) \X Range(day_order) |->
                        HeatmapCell(m, c[1], c[2])]]

NoPivot == [index |-> <<>>, columns |-> <<>>, values |-> <<>>]

-----------------------------------------------------------------------------
\* One run of the script.

\* What the script draws after the load block, in order, with the columns of
\* the loaded table each step reads.
Steps ==
    << [name |-> "selectbox",     needs |-> {"borough"}],
       [name |-> "line",          needs |-> {"transit_timestamp", "ridership"}],
       [name |-> "pie",           needs |-> {}],
       [name |-> "box",           needs |-> {"borough", "ridership"}],
       [name |-> "metrics",       needs |-> {"ridership"}],
       [name |-> "bar_top10",     needs |-> {}],
       [name |-> "map",           needs |-> {}],
       [name |-> "area",          needs |-> {"transit_timestamp", "payment_method",
                                             "ridership"}],
       [name |-> "heatmap",       needs |-> {"transit_timestamp", "ridership"}],
       [name |-> "treemap",       needs |-> {"payment_method", "fare_class_category",
                                             "ridership"}],
       [name |-> "bar_transfers", needs |-> {}],
       [name |-> "scatter",       needs |-> {}],
       [name |-> "sunburst",      needs |-> {}],
       [name |-> "dataframe",     needs |-> {}],
       [name |-> "footer",        needs |-> {}] >>

StepNo(n) == CHOOSE i \in DOMAIN Steps : Steps[i].name = n

StepNames(k) == [i \in 1..k |-> Steps[i].name]

\* The first step that reads a column the table lacks (KeyError), or
\* Len(Steps) + 1.
FirstKeyError(cols) ==
    IF \A i \in DOMAIN Steps : Steps[i].needs \subseteq cols THEN Len(Steps) + 1
    ELSE CHOOSE i \in DOMAIN Steps :
            /\ ~(Steps[i].needs \subseteq cols)
            /\ \A j \in 1..(i - 1) : Steps[j].needs \subseteq cols

\* An except clause that catches every load failure.
HandlesLikeNotFound(e) == e \in {"FileNotFoundError", "ValueError", "KeyError"}

\* An except clause that misses the missing file.
HandlesKeyError(e) == e = "KeyError"

\* The except clause of the load block: st.error, st.info, st.stop().
Handles(e) == e = "FileNotFoundError"

\* The state a run leaves when it ends in the load block.
EndInLoad(d, e) ==
    /\ status' = IF Handles(e) THEN "stopped" ELSE "raised"
    /\ exc' = e
    /\ rendered' = IF Handles(e) THEN <<"error", "info">> ELSE <<>>
    /\ df' = d
    /\ station_summary' = NoFrame
    /\ borough_list' = <<>>
    /\ main_df' = NoFrame
    /\ station_df' = NoFrame
    /\ line_data_to_plot' = NoFrame
    /\ top_stations_in_borough' = NoFrame
    /\ top_10_stations' = NoFrame
    /\ top_10_transfers' = NoFrame
    /\ heatmap_pivot' = NoPivot
    /\ metrics' = <<>>

\* The script from the sidebar on, for the loaded table d, its summary s and
\* the selectbox value sel.
Body(d, s, sel) ==
    LET m    == ViewRecords(d, sel)
        sd   == ViewStations(s, sel)
        line == LineData(m)
        km   == KeyMetrics(m, line, sd)
        ke   == FirstKeyError(d.columns)
        stop == IF ke > StepNo("metrics") /\ km.exc # "none"
                THEN StepNo("metrics") ELSE ke
        Reached(n) == StepNo(n) < stop
    IN  /\ status' = IF stop > Len(Steps) THEN "ok" ELSE "raised"
        /\ exc' = IF stop > Len(Steps) THEN "none"
                  ELSE IF stop = ke THEN "KeyError" ELSE km.exc
        /\ rendered' = StepNames(stop - 1)
        /\ df' = d
        /\ station_summary' = s
        /\ borough_list' = IF Reached("selectbox") THEN borough_list_of(d) ELSE <<>>
        /\ main_df' = IF Reached("selectbox") THEN m ELSE NoFrame
        /\ station_df' = IF Reached("selectbox") THEN sd ELSE NoFrame
        /\ line_data_to_plot' = IF Reached("line") THEN line ELSE NoFrame
        /\ top_stations_in_borough' =
              IF Reached("pie") /\ sel # "Overall"
              THEN nlargest(sd, TopShare, "total_ridership") ELSE NoFrame
        /\ metrics' = IF Reached("metrics") THEN km.value ELSE <<>>
        /\ top_10_stations' =
              IF Reached("bar_top10") THEN nlargest(sd, TopN, "total_ridership")
              ELSE NoFrame
        /\ heatmap_pivot' = IF Reached("heatmap") THEN heatmap_pivot_of(m) ELSE NoPivot
        /\ top_10_transfers' =
              IF Reached("bar_transfers") THEN nlargest(sd, TopN, "total_transfers")
              ELSE NoFrame

\* The argument of the one load_data call.
DataPath == "MTA_Subway_Hourly_Ridership__2020-2024_20250721.csv"

\* st.cache_data: one entry per function here, since each is only ever called
\* with one argument value; a call that raises stores nothing.
NoLoadCache == [hit |-> FALSE, key |-> "", value |-> NoFrame]

NoSummaryCache == [hit |-> FALSE, key |-> NoFrame, value |-> NoFrame]

Cached(cache, key) == cache.hit /\ cache.key = key

CacheNothing(cache, key, res) == cache

CacheStore(cache, key, res) ==
    IF res.exc = "none" THEN [hit |-> TRUE, key |-> key, value |-> res.value]
    ELSE cache

\* A whole run: the two st.cache_data functions, the load block and the body.
\* loadCount and summaryCount count the times the body of load_data and of
\* create_station_summary ran to its return statement.
Run(sel) ==
    LET hitL  == Cached(loadCache, DataPath)
        ld    == IF hitL THEN Ok(loadCache.value) ELSE load_data(file)
        loads == ~hitL /\ ld.exc = "none"
        hitS  == Cached(summaryCache, ld.value)
        sm    == IF hitS THEN Ok(summaryCache.value)
                 ELSE create_station_summary(ld.value)
        sums  == ld.exc = "none" /\ ~hitS /\ sm.exc = "none"
    IN  /\ loads => loadCount < MaxAttempts
        /\ sums => summaryCount < MaxAttempts
        /\ selected_borough' = sel
        /\ loadCount' = IF loads THEN loadCount + 1 ELSE loadCount
        /\ summaryCount' = IF sums THEN summaryCount + 1 ELSE summaryCount
        /\ loadCache' = IF hitL THEN loadCache
                        ELSE CacheStore(loadCache, DataPath, ld)
        /\ summaryCache' = IF ld.exc # "none" \/ hitS THEN summaryCache
                           ELSE CacheStore(summaryCache, ld.value, sm)
        /\ UNCHANGED file
        /\ IF ld.exc # "none" THEN EndInLoad(NoFrame, ld.exc)
           ELSE IF sm.exc # "none" THEN EndInLoad(ld.value, sm.exc)
           ELSE Body(ld.value, sm.value, sel)

-----------------------------------------------------------------------------
\* The operations.

\* The first run of a session: the selectbox shows its first option.
FirstRun ==
    /\ status = "init"
    /\ Run("Overall")

\* The user picks another borough in the sidebar, which re-runs the script.
SelectBorough(b) ==
    /\ "selectbox" \in Range(rendered)
    /\ b \in Range(borough_list)
    /\ b # selected_borough
    /\ Run(b)

\* The user re-runs the script without touching the selector.
Rerun ==
    /\ status # "init"
    /\ Run(selected_borough)

WellFormed == [exists |-> TRUE, tsOK |-> TRUE, columns |-> AllColumns]

\* After a failed run the operator puts the well-formed file in place, as the
\* st.info message asks.
PlaceFile ==
    /\ status \in {"stopped", "raised"}
    /\ [exists |-> file.exists, tsOK |-> file.tsOK, columns |-> file.columns]
          # WellFormed
    /\ file' = [file EXCEPT !.exists = TRUE, !.tsOK = TRUE, !.columns = AllColumns]
    /\ UNCHANGED <<loadCache, summaryCache, loadCount, summaryCount,
                   selected_borough, status, exc, rendered,
                   df, station_summary, borough_list, main_df, station_df,
                   line_data_to_plot, top_stations_in_borough, top_10_stations,
                   top_10_transfers, heatmap_pivot, metrics>>

Contents == UNION { [1..n -> CsvRows] : n \in 0..MaxRecords }

TopContents ==
    UNION { { [i \in 1..n |-> CsvRow(StationOrder[i], "Queens", o[i])] :
              o \in [1..n -> TopObservations] } : n \in 0..MaxStations }

Fresh ==
    /\ loadCache = NoLoadCache
    /\ summaryCache = NoSummaryCache
    /\ loadCount = 0
    /\ summaryCount = 0
    /\ selected_borough = "Overall"
    /\ status = "init"
    /\ exc = "none"
    /\ rendered = <<>>
    /\ df = NoFrame
    /\ station_summary = NoFrame
    /\ borough_list = <<>>
    /\ main_df = NoFrame
    /\ station_df = NoFrame
    /\ line_data_to_plot = NoFrame
    /\ top_stations_in_borough = NoFrame
    /\ top_10_stations = NoFrame
    /\ top_10_transfers = NoFrame
    /\ heatmap_pivot = NoPivot
    /\ metrics = <<>>

Init ==
    /\ \E c \in FileConditions, rows \in Contents :
          file = [exists |-> c.exists, tsOK |-> c.tsOK, columns |-> c.columns,
                  rows |-> rows]
    /\ Fresh

Next ==
    \/ FirstRun
    \/ \E b \in Boroughs : SelectBorough(b)
    \/ Rerun
    \/ PlaceFile

Spec == Init /\ [][Next]_vars

\* Many stations, a well-formed file: the inputs of the top-N transforms.
InitTop ==
    /\ \E rows \in TopContents :
          file = [exists |-> TRUE, tsOK |-> TRUE, columns |-> AllColumns,
                  rows |-> rows]
    /\ Fresh

NextTop ==
    \/ FirstRun
    \/ \E b \in Boroughs : SelectBorough(b)
    \/ Rerun

SpecTop == InitTop /\ [][NextTop]_vars

-----------------------------------------------------------------------------
\* Properties.

Computed(frame) == frame.columns # {}

KeysOf(rows) == [i \in DOMAIN rows |-> <<rows[i].station_complex, rows[i].borough>>]

\* C1: the station summary holds exactly one row per distinct
\* (station_complex, borough) pair of the loaded records, and its
\* total_ridership column sums to the ridership of all loaded records.
C1_SummaryRowPerPair ==
    Computed(station_summary) =>
        LET pairs == Range(KeysOf(df.rows))
            keys  == KeysOf(station_summary.rows)
        IN  /\ Len(keys) = Cardinality(pairs)
            /\ Range(keys) = pairs
            /\ Sum(Col(station_summary.rows, "total_ridership"))
                  = Sum(Col(df.rows, "ridership"))

\* Two records of one station and borough were summed into one row.
C1_Witness ==
    /\ status = "ok"
    /\ Len(df.rows) = 2
    /\ Len(station_summary.rows) = 1
    /\ station_summary.rows[1].total_ridership = 30

\* C2: filtering the loaded records by the boroughs the selector offers is a
\* partition: the filtered sets of two distinct boroughs share no row, and
\* together the filtered sets are all the loaded records.
C2_FilterPartition ==
    status = "ok" =>
        LET offered == Range(borough_list) \ {"Overall"}
            Part(b) == FilterBorough(df, b)
        IN  /\ \A b1, b2 \in offered :
                  b1 # b2 => IndexLabels(Part(b1)) \cap IndexLabels(Part(b2)) = {}
            /\ UNION { Range(Part(b).rows) : b \in offered } = Range(df.rows)
            /\ Range(ViewRecords(df, "Overall").rows) = Range(df.rows)

\* Two boroughs are offered and one of them is selected.
C2_Witness ==
    /\ status = "ok"
    /\ Len(borough_list) = 3
    /\ selected_borough = "Queens"
    /\ Len(main_df.rows) = 1

\* The rows of a frame are rows of another, in the same order.
IsSubframe(part, whole) ==
    /\ Range(part.rows) \subseteq Range(whole.rows)
    /\ \A i, j \in DOMAIN part.rows :
          i < j => part.rows[i].index < part.rows[j].index

\* C3: whatever was selected before, main_df is the loaded records of the
\* current selection and station_df the summary rows of that same selection
\* (the full tables for 'Overall'), so station_df is the summary of main_df.
C3_ViewMatchesSelection ==
    status = "ok" =>
        /\ IsSubframe(main_df, df)
        /\ IsSubframe(station_df, station_summary)
        /\ \A r \in Range(df.rows) :
              r \in Range(main_df.rows)
                 <=> (selected_borough = "Overall" \/ r.borough = selected_borough)
        /\ \A r \in Range(station_summary.rows) :
              r \in Range(station_df.rows)
                 <=> (selected_borough = "Overall" \/ r.borough = selected_borough)
        /\ Range(KeysOf(station_df.rows)) = Range(KeysOf(main_df.rows))

\* A borough is selected that holds some but not all of the records.
C3_Witness ==
    /\ status = "ok"
    /\ selected_borough = "Bronx"
    /\ Len(main_df.rows) = 1
    /\ Len(df.rows) = 2
    /\ Len(station_df.rows) = 1
    /\ Len(station_summary.rows) = 2

\* A step that is a run of the script (the file is left alone).
FileBad == file.exists /\ (~file.tsOK \/ file.columns # AllColumns)

NothingDrawn ==
    /\ borough_list' = <<>>
    /\ metrics' = <<>>
    /\ ~Computed(main_df') /\ ~Computed(station_df')
    /\ ~Computed(line_data_to_plot') /\ ~Computed(top_stations_in_borough')
    /\ ~Computed(top_10_stations') /\ ~Computed(top_10_transfers')
    /\ heatmap_pivot' = NoPivot

\* C4: a run that finds no input file shows the error and the hint and stops:
\* no selector, chart, metric or data preview is drawn.
C4_MissingFileHalts ==
    [][ (~file.exists /\ file' = file) =>
           /\ status' = "stopped"
           /\ exc' = "FileNotFoundError"
           /\ rendered' = <<"error", "info">>
           /\ NothingDrawn ]_vars

\* A run has met the missing file.
C4_Witness ==
    /\ ~file.exists
    /\ status = "stopped"
    /\ rendered = <<"error", "info">>

\* C5 as claimed: a file that exists but has an unparsable timestamp column or
\* lacks a column is handled like a missing file.
C5_FormatErrorHandledLikeMissing ==
    [][ (FileBad /\ ~loadCache.hit /\ file' = file) =>
           /\ status' = "stopped"
           /\ rendered' = <<"error", "info">> ]_vars

\* C5 as the code has it: the ValueError or KeyError is not caught, no message
\* is shown, and the run ends at the first statement that reads the bad
\* column: before anything is drawn when that is the timestamp or an input of
\* the station summary, after the map when it is payment_method, after the
\* heatmap when it is fare_class_category.
C5_FormatErrorPropagates ==
    [][ (FileBad /\ ~loadCache.hit /\ file' = file) =>
           /\ status' = "raised"
           /\ exc' = (IF ~file.tsOK THEN "ValueError" ELSE "KeyError")
           /\ "error" \notin Range(rendered') /\ "info" \notin Range(rendered')
           /\ rendered' =
                IF "payment_method" \notin file.columns
                THEN <<"selectbox", "line", "pie", "box", "metrics",
                       "bar_top10", "map">>
                ELSE IF "fare_class_category" \notin file.columns
                THEN <<"selectbox", "line", "pie", "box", "metrics",
                       "bar_top10", "map", "area", "heatmap">>
                ELSE <<>> ]_vars

\* A run has met a timestamp column that does not parse.
C5_Witness ==
    /\ file.exists /\ ~file.tsOK
    /\ status = "raised"
    /\ exc = "ValueError"
    /\ rendered = <<>>

AllStepNames == StepNames(Len(Steps))

C8_FirstAppearanceOrder ==
    Computed(station_summary) =>
        KeysOf(station_summary.rows) = Unique(KeysOf(df.rows))

\* C8 as the code has it: the summary rows come in ascending order of
\* (station_complex, borough), whatever the order of the records.
C8_SortedKeyOrder ==
    Computed(station_summary) =>
        LET keys == KeysOf(station_summary.rows)
        IN  /\ Range(keys) = Range(KeysOf(df.rows))
            /\ \A i, j \in DOMAIN keys : i < j => KeyLess(keys[i], keys[j])

\* The records name StationB before StationA, the summary StationA first.
C8_Witness ==
    /\ status = "ok"
    /\ Len(df.rows) = 2
    /\ df.rows[1].station_complex = "StationB"
    /\ df.rows[2].station_complex = "StationA"
    /\ station_summary.rows[1].station_complex = "StationA"

HeatmapDrawn == heatmap_pivot.columns # <<>>

RowsAt(frame, h, d) ==
    SelectSeq(frame.rows, LAMBDA r : r.transit_timestamp % 24 = h
                                     /\ day_order[((r.transit_timestamp \div 24) % 7) + 1] = d)

\* C9 as claimed: the grid has all 24 hours and the seven days Monday to
\* Sunday, each cell the mean of its records or missing.
C9_FullGrid ==
    HeatmapDrawn =>
        /\ heatmap_pivot.columns = day_order
        /\ heatmap_pivot.index = [i \in 1..24 |-> i - 1]

\* C9 as the code has it: the grid has the seven days Monday to Sunday as
\* columns and one row per hour that occurs in the filtered records, ascending;
\* a cell is the mean of the ridership of its records, and missing (not zero)
\* when the hour occurs but not on that day.
C9_HoursPresentGrid ==
    HeatmapDrawn =>
        LET idx == heatmap_pivot.index
        IN  /\ heatmap_pivot.columns =
                  <<"Monday", "Tuesday", "Wednesday", "Thursday", "Friday",
                    "Saturday", "Sunday">>
            /\ Range(idx) = { r.transit_timestamp % 24 : r \in Range(main_df.rows) }
            /\ \A i, j \in DOMAIN idx : i < j => idx[i] < idx[j]
            /\ DOMAIN heatmap_pivot.values = Range(idx) \X Range(day_order)
            /\ \A c \in DOMAIN heatmap_pivot.values :
                  LET v  == heatmap_pivot.values[c]
                      rs == Col(RowsAt(main_df, c[1], c[2]), "ridership")
                  IN  IF rs = <<>> THEN v = NaN
                      ELSE v.den > 0 /\ v.num * Len(rs) = Sum(rs) * v.den

\* Monday 09:00 holds 10 and 20: its cell is 15, the grid has the one row of
\* hour 9 and the other six days of that row are missing.
C9_Witness ==
    /\ status = "ok"
    /\ heatmap_pivot.index = <<9>>
    /\ heatmap_pivot.values[<<9, "Monday">>] = [num |-> 15, den |-> 1]
    /\ heatmap_pivot.values[<<9, "Tuesday">>] = NaN

Min(a, b) == IF a < b THEN a ELSE b

\* The frame top holds n rows of frame (or all of them), none twice, and no
\* row left out has a larger c than a row taken.
IsTop(top, frame, n, c) ==
    /\ Len(top.rows) = Min(n, Len(frame.rows))
    /\ Range(top.rows) \subseteq Range(frame.rows)
    /\ Cardinality(IndexLabels(top)) = Len(top.rows)
    /\ \A r \in Range(top.rows) :
          \A q \in Range(frame.rows) \ Range(top.rows) : q[c] <= r[c]

\* C10: each top-10 frame holds min(10, k) of the k stations of the filtered
\* summary, and with k >= 10 no station left out has a larger measure than a
\* station taken.
C10_TopTen ==
    status = "ok" =>
        /\ IsTop(top_10_stations, station_df, 10, "total_ridership")
        /\ IsTop(top_10_transfers, station_df, 10, "total_transfers")

\* Eleven stations, one of them left out of each chart, and not the same one.
C10_Witness ==
    /\ status = "ok"
    /\ Len(station_df.rows) = 11
    /\ Len(top_10_stations.rows) = 10
    /\ IndexLabels(top_10_stations) # IndexLabels(top_10_transfers)
    /\ station_df.rows[1].total_ridership = 20
    /\ station_df.rows[11].total_ridership = 10

====
